---- MODULE Spec2Model ----
(***************************************************************************)
(* The tool-runner bridge of apps/desktop/src-tauri/src/main.rs: the tauri *)
(* command proassist_tool, resolve_tool_runner and node_binary.            *)
(*                                                                         *)
(* Text is a sequence of Unicode code points, captured process output is a *)
(* sequence of bytes.  Each call of proassist_tool occupies one slot; the  *)
(* filesystem, the environment variable PRO_ASSIST_NODE and the child      *)
(* processes are the environment the calls run in.                         *)
(***************************************************************************)
EXTENDS Integers, Sequences, FiniteSets, TLC

VARIABLES
  disk,          \* the candidate paths that exist on disk
  resource,      \* what path_resolver().resolve_resource(..) returns: None or Some(path)
  env,           \* the process environment's entry for PRO_ASSIST_NODE
  pc,            \* per call: the stage the call is about to run
  tool,          \* per call: the `tool` argument
  payload,       \* per call: the `payload` argument
  script_path,   \* per call: the local `script_path`
  payload_json,  \* per call: the local `payload_json`
  child,         \* per call: the running child process (binary and arguments)
  output,        \* per call: the local `output` (status, stdout, stderr)
  attempts,      \* per call: how often Command::output() was called
  result         \* per call: what the caller receives

vars == <<disk, resource, env, pc, tool, payload, script_path, payload_json,
          child, output, attempts, result>>

---------------------------------------------------------------------------
(* Bounds of the model *)

\* longest stdout, in bytes, that a child writes
MaxOut == 3
\* longest stderr, in bytes, that a child writes
MaxErr == 1
\* number of calls in flight at once in SpecConc
MaxCalls == 2

---------------------------------------------------------------------------
(* Values *)

None == <<>>
Some(x) == <<x>>

RelativePath == "../packages/tool-runner/dist/cli.cjs"
ResourcePath == "$RESOURCE/packages/tool-runner/dist/cli.cjs"
Candidates == {RelativePath, ResourcePath}

\* serde_json::Value, restricted to numbers and strings
Num(n) == [t |-> "number", n |-> n, s |-> <<>>]
Str(s) == [t |-> "string", n |-> 0, s |-> s]
Null == [t |-> "null", n |-> 0, s |-> <<>>]

\* U+FFFD REPLACEMENT CHARACTER
REPLACEMENT == 65533

\* the bytes a child writes: '"', '1', and 0xC3, the first byte of the
\* two-byte sequence C3 A9 (U+00E9), alone an invalid UTF-8 sequence
Bytes == {34, 49, 195}

\* the sequences over S of length at most n
RECURSIVE SeqsUpTo(_, _)
SeqsUpTo(S, n) ==
  IF n = 0 THEN {<<>>}
  ELSE LET shorter == SeqsUpTo(S, n - 1) IN
    shorter \cup {Append(q, x) : q \in shorter, x \in S}

\* every stdout up to MaxOut bytes, and the JSON string "\u00e9"
Stdouts == SeqsUpTo(Bytes, MaxOut) \cup {<<34, 195, 169, 34>>}
\* every stderr up to MaxErr bytes, and the text U+00E9
Stderrs == SeqsUpTo(Bytes, MaxErr) \cup {<<195, 169>>}
ExitCodes == {0, 1}

Outputs == [status : ExitCodes, stdout : Stdouts, stderr : Stderrs]

Tools == {"echo", ""}
Payloads == {Num(1), Str(<<233>>)}

\* PRO_ASSIST_NODE: absent, set to valid Unicode, or set to bytes that are
\* not valid Unicode
Unset == [set |-> FALSE, unicode |-> FALSE, val |-> ""]
EnvValues == {Unset,
              [set |-> TRUE, unicode |-> TRUE, val |-> "/opt/stub"],
              [set |-> TRUE, unicode |-> FALSE, val |-> "/opt/stub\\xFF"]}

\* io::Error texts of a failed spawn
OsErrors == {"No such file or directory (os error 2)",
             "Permission denied (os error 13)"}

NoChild == [binary |-> "", args |-> <<>>]
NoOutput == [status |-> -1, stdout |-> <<>>, stderr |-> <<>>]
NoTool == "<none>"

---------------------------------------------------------------------------
(* Results: Result<Value, String> *)

\* a message is prefix ++ text ++ err: the literal part of the format string,
\* the interpolated process text, the interpolated error's Display text
Msg(prefix, text, err) == [prefix |-> prefix, text |-> text, err |-> err]
NoMsg == Msg("", <<>>, "")

NoResult == [ok |-> FALSE, kind |-> "none", value |-> Null, msg |-> NoMsg]
Success(v) == [ok |-> TRUE, kind |-> "Success", value |-> v, msg |-> NoMsg]
\* kind records the line of proassist_tool that produced the Err
Failure(kind, m) == [ok |-> FALSE, kind |-> kind, value |-> Null, msg |-> m]

MissingMsg ==
  "Tool runner binary missing. Build @pro-assist/tool-runner before starting the app."
SpawnPrefix == "Failed to invoke tool runner: "
ExecPrefix == "Tool runner error: "

---------------------------------------------------------------------------
(* Text conversions *)

\* a decoder that knows ASCII only: every other byte becomes U+FFFD
RECURSIVE from_utf8_lossy_ascii(_)
from_utf8_lossy_ascii(b) ==
  IF b = <<>> THEN <<>>
  ELSE <<IF b[1] < 128 THEN b[1] ELSE REPLACEMENT>> \o from_utf8_lossy_ascii(Tail(b))

\* String::from_utf8_lossy: ASCII bytes and well-formed two-byte sequences
\* decode to their code point, every other byte to U+FFFD.  (Three- and
\* four-byte sequences are outside the byte alphabet of the model.)
RECURSIVE from_utf8_lossy(_)
from_utf8_lossy(b) ==
  IF b = <<>> THEN <<>>
  ELSE IF b[1] < 128 THEN <<b[1]>> \o from_utf8_lossy(Tail(b))
  ELSE IF b[1] \in 194..223 /\ Len(b) >= 2 /\ b[2] \in 128..191
    THEN <<(b[1] - 192) * 64 + (b[2] - 128)>> \o from_utf8_lossy(SubSeq(b, 3, Len(b)))
  ELSE <<REPLACEMENT>> \o from_utf8_lossy(Tail(b))

\* the UTF-8 encoding of a text (code points below U+10000)
RECURSIVE Utf8Encode(_)
Utf8Encode(t) ==
  IF t = <<>> THEN <<>>
  ELSE LET cp == t[1] IN
    (IF cp < 128 THEN <<cp>>
     ELSE IF cp < 2048 THEN <<192 + (cp \div 64), 128 + (cp % 64)>>
     ELSE <<224 + (cp \div 4096), 128 + ((cp \div 64) % 64), 128 + (cp % 64)>>)
    \o Utf8Encode(Tail(t))

\* the bytes are well-formed UTF-8: no byte is replaced when decoding
RECURSIVE IsUtf8(_)
IsUtf8(b) ==
  IF b = <<>> THEN TRUE
  ELSE IF b[1] < 128 THEN IsUtf8(Tail(b))
  ELSE IF b[1] \in 194..223 /\ Len(b) >= 2 /\ b[2] \in 128..191
    THEN IsUtf8(SubSeq(b, 3, Len(b)))
  ELSE FALSE

\* needle occurs in hay as a contiguous run
Contains(hay, needle) ==
  \E i \in 0..(Len(hay) - Len(needle)) :
    SubSeq(hay, i + 1, i + Len(needle)) = needle

IsDigit(c) == c \in 49..57

RECURSIVE DecimalValue(_)
DecimalValue(t) ==
  IF t = <<>> THEN 0
  ELSE DecimalValue(SubSeq(t, 1, Len(t) - 1)) * 10 + (t[Len(t)] - 48)

RECURSIVE Digits(_)
Digits(n) ==
  IF n < 10 THEN <<48 + n>> ELSE Digits(n \div 10) \o <<48 + (n % 10)>>

ParseOk(v) == [ok |-> TRUE, value |-> v, err |-> ""]
ParseErr(e) == [ok |-> FALSE, value |-> Null, err |-> e]

\* serde_json::from_str::<Value>, on the texts the model's alphabet can
\* form (a quote, the digit 1, non-ASCII characters): a string runs to the
\* next quote, a number is a run of digits, nothing may follow the value.
\* The error is serde_json's message without its line and column.
from_str(t) ==
  IF t = <<>> THEN ParseErr("EOF while parsing a value")
  ELSE IF t[1] = 34 THEN
    LET closing == {i \in 2..Len(t) : t[i] = 34} IN
      IF closing = {} THEN ParseErr("EOF while parsing a string")
      ELSE LET j == CHOOSE i \in closing : \A k \in closing : i <= k IN
        IF j < Len(t) THEN ParseErr("trailing characters")
        ELSE ParseOk(Str(SubSeq(t, 2, j - 1)))
  ELSE IF IsDigit(t[1]) THEN
    LET rest == {i \in 1..Len(t) : ~IsDigit(t[i])} IN
      IF rest # {} THEN ParseErr("trailing characters")
      ELSE ParseOk(Num(DecimalValue(t)))
  ELSE ParseErr("expected value")

\* serde_json::to_string(&Value): compact JSON text.  Serializing a Value
\* cannot fail, so the Err branch of line 11 is never taken.
to_string(v) ==
  IF v.t = "number" THEN Digits(v.n)
  ELSE <<34>> \o v.s \o <<34>>

---------------------------------------------------------------------------
(* The functions of main.rs *)

Resolved(p) == [ok |-> TRUE, path |-> p, err |-> ""]
NotResolved(e) == [ok |-> FALSE, path |-> "", err |-> e]

\* resolve_tool_runner without the existence check of line 36
resolve_unchecked(d, res) ==
  LET relative0 == RelativePath
      relative1 == IF relative0 \notin d /\ res # None THEN res[1] ELSE relative0
  IN Resolved(relative1)

\* resolve_tool_runner trying the bundled resource before the relative path
resolve_resource_first(d, res) ==
  LET first == IF res # None /\ res[1] \in d THEN res[1] ELSE RelativePath
  IN IF first \notin d THEN NotResolved(MissingMsg) ELSE Resolved(first)

\* resolve_tool_runner on a disk d, with res the result of resolve_resource
resolve_tool_runner(d, res) ==
  LET relative0 == RelativePath
      relative1 == IF relative0 \notin d /\ res # None THEN res[1] ELSE relative0
  IN IF relative1 \notin d THEN NotResolved(MissingMsg) ELSE Resolved(relative1)

\* node_binary: std::env::var is Err when the variable is absent and when
\* its value is not valid Unicode
node_binary(e) == IF e.set /\ e.unicode THEN e.val ELSE "node"

\* lines 20-26 with stdout decoded before the exit status is looked at
proassist_output_decode_first(o) ==
  LET parsed == from_str(from_utf8_lossy(o.stdout)) IN
    IF parsed.ok THEN Success(parsed.value)
    ELSE IF o.status # 0
      THEN Failure("ExecutionError", Msg(ExecPrefix, from_utf8_lossy(o.stderr), ""))
      ELSE Failure("DecodeError", Msg("", <<>>, parsed.err))

\* lines 25-26 alone: the exit status is never looked at
proassist_output_no_status(o) ==
  LET parsed == from_str(from_utf8_lossy(o.stdout)) IN
    IF parsed.ok THEN Success(parsed.value)
    ELSE Failure("DecodeError", Msg("", <<>>, parsed.err))

\* lines 20-26 of proassist_tool: from the captured output to the result
proassist_output(o) ==
  IF o.status # 0
    THEN Failure("ExecutionError", Msg(ExecPrefix, from_utf8_lossy(o.stderr), ""))
    ELSE LET parsed == from_str(from_utf8_lossy(o.stdout)) IN
      IF parsed.ok THEN Success(parsed.value)
      ELSE Failure("DecodeError", Msg("", <<>>, parsed.err))

---------------------------------------------------------------------------
(* The calls *)

Calls == DOMAIN pc

InitFor(S) ==
  /\ disk \in SUBSET Candidates
  /\ resource \in {None, Some(ResourcePath)}
  /\ env \in EnvValues
  /\ pc = [c \in S |-> "idle"]
  /\ tool = [c \in S |-> NoTool]
  /\ payload = [c \in S |-> Null]
  /\ script_path = [c \in S |-> ""]
  /\ payload_json = [c \in S |-> <<>>]
  /\ child = [c \in S |-> NoChild]
  /\ output = [c \in S |-> NoOutput]
  /\ attempts = [c \in S |-> 0]
  /\ result = [c \in S |-> NoResult]

\* the locals of a call that has returned or that no later line reads
DropLocals(c) ==
  /\ tool' = [tool EXCEPT ![c] = NoTool]
  /\ payload' = [payload EXCEPT ![c] = Null]
  /\ script_path' = [script_path EXCEPT ![c] = ""]
  /\ payload_json' = [payload_json EXCEPT ![c] = <<>>]

\* the frontend invokes the command
Invoke(c, t, p) ==
  /\ pc[c] = "idle"
  /\ pc' = [pc EXCEPT ![c] = "Locate"]
  /\ tool' = [tool EXCEPT ![c] = t]
  /\ payload' = [payload EXCEPT ![c] = p]
  /\ UNCHANGED <<disk, resource, env, script_path, payload_json, child, output,
                 attempts, result>>

\* line 10
Locate(c) ==
  /\ pc[c] = "Locate"
  /\ LET r == resolve_tool_runner(disk, resource) IN
       IF r.ok
         THEN /\ script_path' = [script_path EXCEPT ![c] = r.path]
              /\ pc' = [pc EXCEPT ![c] = "Encode"]
              /\ UNCHANGED <<tool, payload, payload_json, result>>
         ELSE /\ result' = [result EXCEPT ![c] =
                              Failure("PathResolutionError", Msg(r.err, <<>>, ""))]
              /\ pc' = [pc EXCEPT ![c] = "done"]
              /\ DropLocals(c)
  /\ UNCHANGED <<disk, resource, env, child, output, attempts>>

\* line 11
Encode(c) ==
  /\ pc[c] = "Encode"
  /\ payload_json' = [payload_json EXCEPT ![c] = to_string(payload[c])]
  /\ pc' = [pc EXCEPT ![c] = "Spawn"]
  /\ UNCHANGED <<disk, resource, env, tool, payload, script_path, child, output,
                 attempts, result>>

\* Spawn with the error of a failed start reported as the runner's own error
Spawn_error_as_exit(c) ==
  /\ pc[c] = "Spawn"
  /\ attempts' = [attempts EXCEPT ![c] = @ + 1]
  /\ \/ /\ child' = [child EXCEPT ![c] =
                       [binary |-> node_binary(env),
                        args |-> <<script_path[c], tool[c], payload_json[c]>>]]
        /\ pc' = [pc EXCEPT ![c] = "Wait"]
        /\ UNCHANGED <<tool, payload, script_path, payload_json, result>>
     \/ \E e \in OsErrors :
          /\ result' = [result EXCEPT ![c] = Failure("ExecutionError", Msg(ExecPrefix, <<>>, e))]
          /\ pc' = [pc EXCEPT ![c] = "done"]
          /\ DropLocals(c)
          /\ UNCHANGED child
  /\ UNCHANGED <<disk, resource, env, output>>

\* lines 13-18, up to the start of the child: the operating system starts
\* the binary or returns an error
Spawn(c) ==
  /\ pc[c] = "Spawn"
  /\ attempts' = [attempts EXCEPT ![c] = @ + 1]
  /\ \/ /\ child' = [child EXCEPT ![c] =
                       [binary |-> node_binary(env),
                        args |-> <<script_path[c], tool[c], payload_json[c]>>]]
        /\ pc' = [pc EXCEPT ![c] = "Wait"]
        /\ UNCHANGED <<tool, payload, script_path, payload_json, result>>
     \/ \E e \in OsErrors :
          /\ result' = [result EXCEPT ![c] = Failure("SpawnError", Msg(SpawnPrefix, <<>>, e))]
          /\ pc' = [pc EXCEPT ![c] = "done"]
          /\ DropLocals(c)
          /\ UNCHANGED child
  /\ UNCHANGED <<disk, resource, env, output>>

\* ChildExit capturing into one buffer that all calls share
ChildExit_shared(c, Os) ==
  /\ pc[c] = "Wait"
  /\ \E o \in Os : output' = [d \in Calls |-> IF d = c \/ output[d] # NoOutput THEN o ELSE output[d]]
  /\ child' = [child EXCEPT ![c] = NoChild]
  /\ pc' = [pc EXCEPT ![c] = "Decode"]
  /\ DropLocals(c)
  /\ UNCHANGED <<disk, resource, env, attempts, result>>

\* lines 13-18, the wait: the child exits, having written one of the
\* outputs Os, and its output is captured
ChildExit(c, Os) ==
  /\ pc[c] = "Wait"
  /\ \E o \in Os : output' = [output EXCEPT ![c] = o]
  /\ child' = [child EXCEPT ![c] = NoChild]
  /\ pc' = [pc EXCEPT ![c] = "Decode"]
  /\ DropLocals(c)
  /\ UNCHANGED <<disk, resource, env, attempts, result>>

\* Decode running the runner again when it exited with a non-zero status
Decode_retry(c) ==
  /\ pc[c] = "Decode"
  /\ IF output[c].status # 0 /\ attempts[c] < 2
       THEN /\ pc' = [pc EXCEPT ![c] = "Spawn"]
            /\ UNCHANGED result
       ELSE /\ result' = [result EXCEPT ![c] = proassist_output(output[c])]
            /\ pc' = [pc EXCEPT ![c] = "done"]
  /\ UNCHANGED <<disk, resource, env, tool, payload, script_path, payload_json,
                 child, output, attempts>>

\* lines 20-26
Decode(c) ==
  /\ pc[c] = "Decode"
  /\ result' = [result EXCEPT ![c] = proassist_output(output[c])]
  /\ pc' = [pc EXCEPT ![c] = "done"]
  /\ UNCHANGED <<disk, resource, env, tool, payload, script_path, payload_json,
                 child, output, attempts>>

\* the caller has received the result; the slot serves the next call
Return(c) ==
  /\ pc[c] = "done"
  /\ pc' = [pc EXCEPT ![c] = "idle"]
  /\ result' = [result EXCEPT ![c] = NoResult]
  /\ output' = [output EXCEPT ![c] = NoOutput]
  /\ attempts' = [attempts EXCEPT ![c] = 0]
  /\ UNCHANGED <<disk, resource, env, tool, payload, script_path, payload_json, child>>

---------------------------------------------------------------------------
(* The environment *)

\* the operator sets or unsets PRO_ASSIST_NODE
SetEnv(v) ==
  /\ v # env
  /\ env' = v
  /\ UNCHANGED <<disk, resource, pc, tool, payload, script_path, payload_json,
                 child, output, attempts, result>>

\* a candidate file is built or removed
FsChange(p) ==
  /\ disk' = IF p \in disk THEN disk \ {p} ELSE disk \cup {p}
  /\ UNCHANGED <<resource, env, pc, tool, payload, script_path, payload_json,
                 child, output, attempts, result>>

\* one call at a time, every output a child can write
Init == InitFor({1})
Next ==
  \/ \E c \in Calls, t \in Tools, p \in Payloads : Invoke(c, t, p)
  \/ \E c \in Calls : Locate(c)
  \/ \E c \in Calls : Encode(c)
  \/ \E c \in Calls : Spawn(c)
  \/ \E c \in Calls : ChildExit(c, Outputs)
  \/ \E c \in Calls : Decode(c)
  \/ \E c \in Calls : Return(c)
  \/ \E v \in EnvValues : SetEnv(v)
  \/ \E p \in Candidates : FsChange(p)
Spec == Init /\ [][Next]_vars

\* calls in flight together; each child writes one of a few outputs
ConcOutputs ==
  {[status |-> 0, stdout |-> <<49>>, stderr |-> <<>>],
   [status |-> 0, stdout |-> <<34>>, stderr |-> <<49>>],
   [status |-> 1, stdout |-> <<49>>, stderr |-> <<34>>],
   [status |-> 1, stdout |-> <<>>, stderr |-> <<195>>]}
InitConc == InitFor(1..MaxCalls)
NextConc ==
  \/ \E c \in Calls, t \in Tools : Invoke(c, t, Num(1))
  \/ \E c \in Calls : Locate(c)
  \/ \E c \in Calls : Encode(c)
  \/ \E c \in Calls : Spawn(c)
  \/ \E c \in Calls : ChildExit(c, ConcOutputs)
  \/ \E c \in Calls : Decode(c)
  \/ \E c \in Calls : Return(c)
  \/ \E v \in EnvValues : SetEnv(v)
  \/ \E p \in Candidates : FsChange(p)
SpecConc == InitConc /\ [][NextConc]_vars

---------------------------------------------------------------------------
(* What the claims speak of, stated apart from the functions above *)

\* candidate (a), and candidate (b) where the bundle resolves it, is on disk
ExistsA == RelativePath \in disk
ExistsB == resource # None /\ ResourcePath \in disk

\* the text whose UTF-8 encoding is b, for well-formed b
RECURSIVE Utf8Decode(_)
Utf8Decode(b) ==
  IF b = <<>> THEN <<>>
  ELSE IF b[1] < 128 THEN <<b[1]>> \o Utf8Decode(Tail(b))
  ELSE <<(b[1] % 32) * 64 + (b[2] % 64)>> \o Utf8Decode(SubSeq(b, 3, Len(b)))

\* t is one JSON value: a run of digits, or a quoted run of characters
IsJson(t) ==
  /\ Len(t) >= 1
  /\ \/ \A i \in 1..Len(t) : IsDigit(t[i])
     \/ /\ Len(t) >= 2
        /\ t[1] = 34
        /\ t[Len(t)] = 34
        /\ \A i \in 2..(Len(t) - 1) : t[i] # 34

\* the value a JSON text denotes
JsonValueOf(t) ==
  IF t[1] = 34 THEN Str(SubSeq(t, 2, Len(t) - 1)) ELSE Num(DecimalValue(t))

\* the bytes are one well-formed JSON value (JSON text is UTF-8)
WellFormedJson(b) == IsUtf8(b) /\ IsJson(Utf8Decode(b))

\* the call's child ran and exited
Exited(c) == output[c] # NoOutput

ErrorKinds == {"PathResolutionError", "SerializationError", "SpawnError",
               "ExecutionError", "DecodeError"}

---------------------------------------------------------------------------
(* C1 *)

NeitherCandidateExists == ~ExistsA /\ ~ExistsB

\* C1: a call that locates the runner while neither candidate path exists
\* ends at once with the path-resolution error that tells the operator to
\* build the runner; it has made no spawn attempt and has no child, then and
\* for as long as that result stands.
C1_MissingRunnerFailsBeforeSpawn ==
  /\ [](\A c \in Calls : result[c].kind = "PathResolutionError" =>
          attempts[c] = 0 /\ child[c] = NoChild /\ ~Exited(c))
  /\ [][\A c \in Calls :
          (pc[c] = "Locate" /\ pc'[c] # "Locate" /\ NeitherCandidateExists) =>
            /\ pc'[c] = "done"
            /\ result'[c] = Failure("PathResolutionError", Msg(MissingMsg, <<>>, ""))
            /\ attempts'[c] = 0
            /\ child'[c] = NoChild]_vars

C1_Witness ==
  \E c \in Calls :
    /\ pc[c] = "done"
    /\ NeitherCandidateExists
    /\ result[c] = Failure("PathResolutionError", Msg(MissingMsg, <<>>, ""))
    /\ attempts[c] = 0

---------------------------------------------------------------------------
(* C2 *)

\* C2 as stated: a call whose runner exited with a non-zero status fails with
\* an ExecutionError whose message contains the exact bytes the runner wrote
\* to stderr, and stdout is not returned.
C2_ExecutionErrorHasExactStderr ==
  \A c \in Calls :
    (pc[c] = "done" /\ Exited(c) /\ output[c].status # 0) =>
      /\ result[c].kind = "ExecutionError"
      /\ ~result[c].ok
      /\ result[c].value = Null
      /\ result[c].msg.prefix = ExecPrefix
      /\ Contains(Utf8Encode(result[c].msg.text), output[c].stderr)

\* C2, amended: a call whose runner exited with a non-zero status fails with
\* an ExecutionError whose message is the fixed prefix followed by stderr
\* decoded as UTF-8 with every invalid sequence replaced by U+FFFD; it holds
\* the exact stderr bytes whenever stderr is well-formed UTF-8.  Stdout is
\* neither decoded nor returned, whatever it holds.
C2_ExecutionErrorHasDecodedStderr ==
  \A c \in Calls :
    (pc[c] = "done" /\ Exited(c) /\ output[c].status # 0) =>
      /\ result[c] = Failure("ExecutionError",
                             Msg(ExecPrefix, from_utf8_lossy(output[c].stderr), ""))
      /\ IsUtf8(output[c].stderr) =>
           Utf8Encode(result[c].msg.text) = output[c].stderr

C2_Witness ==
  \E c \in Calls :
    /\ pc[c] = "done"
    /\ output[c] = [status |-> 1, stdout |-> <<49>>, stderr |-> <<195, 169>>]
    /\ WellFormedJson(output[c].stdout)
    /\ result[c].kind = "ExecutionError"
    /\ result[c].msg.text = <<233>>

---------------------------------------------------------------------------
(* C3 *)

---------------------------------------------------------------------------
(* C4 *)

\* C4 as stated: a call ends with a DecodeError if and only if its runner
\* exited with status 0 and the bytes on stdout are not one JSON value.
C4_DecodeErrorIffStdoutNotJson ==
  \A c \in Calls :
    pc[c] = "done" =>
      (result[c].kind = "DecodeError" <=>
         (Exited(c) /\ output[c].status = 0 /\ ~WellFormedJson(output[c].stdout)))

\* C4, amended: a call ends with a DecodeError if and only if its runner
\* exited with status 0 and stdout, decoded as UTF-8 with every invalid
\* sequence replaced by U+FFFD, is not one JSON value; a DecodeError never
\* comes with a non-zero exit status.
C4_DecodeErrorIffDecodedStdoutNotJson ==
  \A c \in Calls :
    pc[c] = "done" =>
      /\ result[c].kind = "DecodeError" <=>
           (Exited(c) /\ output[c].status = 0
              /\ ~IsJson(from_utf8_lossy(output[c].stdout)))
      /\ result[c].kind = "DecodeError" => (Exited(c) /\ output[c].status = 0)

C4_Witness ==
  \E c \in Calls :
    /\ pc[c] = "done"
    /\ output[c].status = 0
    /\ output[c].stdout = <<49, 34>>
    /\ result[c].kind = "DecodeError"

---------------------------------------------------------------------------
(* C5 *)

\* C5: the path a call resolves is candidate (a) whenever (a) exists,
\* whether or not (b) exists; it is candidate (b) exactly when (a) does not
\* exist and (b) does; it is never a path other than these two, and never a
\* path that is not on disk.
C5_FirstExistingCandidate ==
  [][\A c \in Calls :
       (pc[c] = "Locate" /\ pc'[c] # "Locate") =>
         /\ ExistsA => (pc'[c] = "Encode" /\ script_path'[c] = RelativePath)
         /\ (~ExistsA /\ ExistsB) => (pc'[c] = "Encode" /\ script_path'[c] = ResourcePath)
         /\ script_path'[c] = ResourcePath => (~ExistsA /\ ExistsB)
         /\ pc'[c] = "Encode" =>
              (script_path'[c] \in Candidates /\ script_path'[c] \in disk)]_vars

C5_Witness ==
  \E c \in Calls :
    /\ pc[c] = "Encode"
    /\ ExistsA
    /\ ExistsB
    /\ script_path[c] = RelativePath

---------------------------------------------------------------------------
(* C6 *)

\* C6: every spawn runs the binary that PRO_ASSIST_NODE names when the call
\* spawns, "node" when the variable is unset, with exactly the three
\* arguments resolved path, tool, JSON text of the payload.
C6_SpawnRunsOverrideBinary ==
  [][\A c \in Calls :
       (pc[c] = "Spawn" /\ pc'[c] = "Wait") =>
         child'[c] = [binary |-> IF env.set THEN env.val ELSE "node",
                      args |-> <<script_path[c], tool[c], to_string(payload[c])>>]]_vars

---------------------------------------------------------------------------
(* C7 *)

\* the stage a message names, by the literal text it starts with
StageNamedBy(m) ==
  CASE m.prefix = MissingMsg -> "PathResolutionError"
    [] m.prefix = SpawnPrefix -> "SpawnError"
    [] m.prefix = ExecPrefix -> "ExecutionError"
    [] OTHER -> "none"

\* C7: the message of every failed call names the stage that failed.
C7_FailureMessageNamesStage ==
  \A c \in Calls :
    (pc[c] = "done" /\ ~result[c].ok) =>
      (result[c].kind \in ErrorKinds /\ StageNamedBy(result[c].msg) = result[c].kind)

---------------------------------------------------------------------------
(* C8 *)

\* the order of the stages of one call
StageEdges ==
  {<<"idle", "Locate">>, <<"Locate", "Encode">>, <<"Encode", "Spawn">>,
   <<"Spawn", "Wait">>, <<"Wait", "Decode">>, <<"Decode", "done">>,
   <<"Locate", "done">>, <<"Encode", "done">>, <<"Spawn", "done">>,
   <<"done", "idle">>}

\* C8: a call moves through Locate, Encode, Spawn, Wait, Decode in this
\* order, never back and never twice; a stage that fails ends the call; a
\* call makes at most one spawn attempt; it has a result exactly when it has
\* ended, that result is one Success or one Failure, and stays as it is.
C8_StagesInOrderOnce ==
  [][\A c \in Calls :
       /\ pc'[c] # pc[c] => <<pc[c], pc'[c]>> \in StageEdges
       /\ attempts'[c] <= 1
       /\ pc'[c] \in {"Wait", "Decode"} => attempts'[c] = 1
       /\ pc'[c] \in {"idle", "Locate", "Encode", "Spawn"} => attempts'[c] = 0
       /\ pc'[c] # "done" => result'[c] = NoResult
       /\ pc'[c] = "done" =>
            /\ result'[c].kind \in ErrorKinds \cup {"Success"}
            /\ result'[c].ok <=> result'[c].kind = "Success"
            /\ (pc[c] # "done" /\ <<pc[c], pc'[c]>> # <<"Decode", "done">>) => ~result'[c].ok
       /\ (pc[c] = "done" /\ pc'[c] = "done") => result'[c] = result[c]]_vars

C8_Witness ==
  \E c \in Calls :
    /\ pc[c] = "done"
    /\ result[c].ok
    /\ attempts[c] = 1
    /\ Exited(c)

---------------------------------------------------------------------------
(* C10 *)

\* C10: a spawn attempt that starts no child ends the call with a SpawnError
\* whose message is the fixed prefix followed by the operating system's
\* error text; such a call has no exit status, stdout or stderr, so its
\* result is no ExecutionError, DecodeError or Success.
C10_SpawnErrorWrapsOsError ==
  /\ [](\A c \in Calls : result[c].kind = "SpawnError" =>
          (~Exited(c) /\ child[c] = NoChild /\ attempts[c] = 1 /\ ~result[c].ok))
  /\ [][\A c \in Calls :
          (pc[c] = "Spawn" /\ pc'[c] # "Spawn" /\ child'[c] = NoChild) =>
            /\ pc'[c] = "done"
            /\ \E e \in OsErrors :
                 result'[c] = Failure("SpawnError", Msg(SpawnPrefix, <<>>, e))
            /\ ~Exited(c)']_vars

C10_Witness ==
  \E c \in Calls :
    /\ pc[c] = "done"
    /\ result[c] = Failure("SpawnError",
                           Msg(SpawnPrefix, <<>>, "Permission denied (os error 13)"))
    /\ attempts[c] = 1
    /\ ~Exited(c)

---------------------------------------------------------------------------
(* C9 *)

\* what belongs to call c
Frame(c) == <<pc[c], tool[c], payload[c], script_path[c], payload_json[c],
              child[c], output[c], attempts[c], result[c]>>

\* C9: with calls in flight together, every waiting call has a child of its
\* own started with its own request; a step of one call changes neither
\* PRO_ASSIST_NODE nor the disk nor anything of another call; and the result
\* of a call whose child exited depends on that child's status, stdout and
\* stderr alone: calls whose children wrote the same get the same result.
C9_CallsIndependent ==
  /\ [](\A c \in Calls :
          /\ pc[c] = "Wait" =>
               (child[c] # NoChild
                  /\ child[c].args = <<script_path[c], tool[c], to_string(payload[c])>>)
          /\ \A d \in Calls :
               (pc[c] = "done" /\ pc[d] = "done" /\ Exited(c) /\ output[c] = output[d])
                 => result[c] = result[d])
  /\ [][\A c \in Calls :
          Frame(c)' # Frame(c) =>
            /\ env' = env
            /\ disk' = disk
            /\ resource' = resource
            /\ \A d \in Calls \ {c} : Frame(d)' = Frame(d)]_vars

C9_Witness ==
  \E c, d \in Calls :
    /\ c # d
    /\ pc[c] = "Wait"
    /\ pc[d] = "Wait"
    /\ child[c] # NoChild
    /\ child[d] # NoChild
    /\ child[c].args[2] # child[d].args[2]

====
